---------------------------- MODULE Spec2Model ----------------------------
(***************************************************************************)
(* A model of the t-docker terminal dashboard (src/tui/ps.go, the revision *)
(* of lines 1-300): the bubbletea model, its Update handler, the commands  *)
(* it returns, the goroutines that run them and the `docker` processes     *)
(* they start.                                                             *)
(*                                                                         *)
(* Text is a sequence of one-character strings, so that strings.Split,     *)
(* strings.TrimSpace and strings.Contains are computed, not assumed.       *)
(***************************************************************************)
EXTENDS Integers, Sequences, FiniteSets, Bags, TLC

(***************************************************************************)
(* Bounds of the model.                                                    *)
(***************************************************************************)
\* Commands the program dispatches in one run, the initial load included.
MaxCmds == 3
\* the most records in a listing the parser is run on by itself
MaxRecs == 2

(***************************************************************************)
(* Text.                                                                   *)
(***************************************************************************)
TAB == "\t"
NL == "\n"
SP == " "

\* unicode.IsSpace on the characters the model uses
IsSpace(c) == c \in {SP, TAB, NL, "\r"}

Max(a, b) == IF a > b THEN a ELSE b
Min(a, b) == IF a < b THEN a ELSE b

RECURSIVE TrimLeft(_)
TrimLeft(s) ==
  IF s = <<>> THEN <<>>
  ELSE IF IsSpace(Head(s)) THEN TrimLeft(Tail(s)) ELSE s

RECURSIVE TrimRight(_)
TrimRight(s) ==
  IF s = <<>> THEN <<>>
  ELSE IF IsSpace(s[Len(s)]) THEN TrimRight(SubSeq(s, 1, Len(s) - 1)) ELSE s

\* strings.TrimSpace
TrimSpace(s) == TrimRight(TrimLeft(s))

\* strings.Split(s, sep) for a one-character separator: n separators give
\* n+1 pieces, the empty text gives one empty piece.
RECURSIVE Split(_, _)
Split(s, sep) ==
  IF \A i \in 1..Len(s) : s[i] /= sep THEN <<s>>
  ELSE LET k == CHOOSE i \in 1..Len(s) :
                  s[i] = sep /\ \A j \in 1..(i - 1) : s[j] /= sep
       IN <<SubSeq(s, 1, k - 1)>> \o Split(SubSeq(s, k + 1, Len(s)), sep)

\* strings.Contains
Contains(s, sub) ==
  \E i \in 0..(Len(s) - Len(sub)) : SubSeq(s, i + 1, i + Len(sub)) = sub

Exited == <<"E", "x", "i", "t", "e", "d">>
Stopped == <<"S", "t", "o", "p", "p", "e", "d">>

(***************************************************************************)
(* The row parser and the projection to table rows.                        *)
(***************************************************************************)
\* The fields a DockerPS holds, in the order of the --format columns.
NumFields == 7

\* One line of the listing -> a DockerPS.  fields[0] .. fields[6] are
\* indexed without a length check: a line of fewer than 7 fields panics
\* (index out of range), a line of more than 7 loses the fields after the
\* seventh.
ParseLine_DropsEmptyFields(line) ==
  LET fields == SelectSeq(Split(line, TAB), LAMBDA f : f /= <<>>)
  IN IF Len(fields) < NumFields
     THEN [panic |-> TRUE, rec |-> <<>>]
     ELSE [panic |-> FALSE,
           rec |-> [ContainerID |-> TrimSpace(fields[1]),
                    Image       |-> TrimSpace(fields[2]),
                    Command     |-> TrimSpace(fields[3]),
                    Created     |-> TrimSpace(fields[4]),
                    Status      |-> TrimSpace(fields[5]),
                    Ports       |-> TrimSpace(fields[6]),
                    Names       |-> TrimSpace(fields[7])]]
ParseLine(line) ==
  LET fields == Split(line, TAB)
  IN IF Len(fields) < NumFields
     THEN [panic |-> TRUE, rec |-> <<>>]
     ELSE [panic |-> FALSE,
           rec |-> [ContainerID |-> TrimSpace(fields[1]),
                    Image       |-> TrimSpace(fields[2]),
                    Command     |-> TrimSpace(fields[3]),
                    Created     |-> TrimSpace(fields[4]),
                    Status      |-> TrimSpace(fields[5]),
                    Ports       |-> TrimSpace(fields[6]),
                    Names       |-> TrimSpace(fields[7])]]

RECURSIVE ParseLines(_)
ParseLines(lines) ==
  IF lines = <<>> THEN [panic |-> FALSE, list |-> <<>>]
  ELSE IF Head(lines) = <<>> THEN ParseLines(Tail(lines))
  ELSE LET p == ParseLine(Head(lines))
       IN IF p.panic THEN [panic |-> TRUE, list |-> <<>>]
          ELSE LET rest == ParseLines(Tail(lines))
               IN [panic |-> rest.panic,
                   list |-> IF rest.panic THEN <<>> ELSE <<p.rec>> \o rest.list]

\* parseDockerPSOutput: the records of the text, or a panic.
parseDockerPSOutput(output) == ParseLines(Split(output, NL))

\* dockerPSToTableRows: one table.Row of 7 cells per record, in order.
dockerPSToTableRows(dockerPSList) ==
  [i \in 1..Len(dockerPSList) |->
     LET d == dockerPSList[i]
     IN <<d.ContainerID, d.Image, d.Command, d.Created, d.Status, d.Ports, d.Names>>]


(***************************************************************************)
(* The table widget (bubbles/table), as ps.go uses it: its rows, its       *)
(* cursor and its focus flag.  The cursor is owned by the widget; ps.go    *)
(* never assigns it.                                                       *)
(***************************************************************************)
\* table.New(WithColumns, WithFocused(true), WithHeight(7)): no rows yet.
TableHeight == 7
HeaderHeight == 1
\* the rows a half-page key moves by: the viewport height over two
HalfPage == (TableHeight - HeaderHeight) \div 2

NewTable == [rows |-> <<>>, cursor |-> 0, focus |-> TRUE]

\* table.SelectedRow(): the row under the cursor, nil when the cursor is on
\* no row.
SelectedRow(t) ==
  IF t.cursor < 0 \/ t.cursor >= Len(t.rows) THEN <<>> ELSE t.rows[t.cursor + 1]

\* the widget's clamp(v, low, high) = min(max(v, low), high)
Clamp(v, low, high) == Min(Max(v, low), high)

\* table.SetRows(r).  Releases of the widget differ: the later ones pull a
\* cursor beyond the last row back to len(r)-1, the earlier ones leave the
\* cursor alone; clamps says which one the program is built with.
SetRows(t, r, clamps) ==
  [t EXCEPT !.rows = r,
            !.cursor = IF clamps /\ t.cursor > Len(r) - 1
                       THEN Len(r) - 1 ELSE t.cursor]

MoveUp(t, n) == [t EXCEPT !.cursor = Clamp(t.cursor - n, 0, Len(t.rows) - 1)]
MoveDown(t, n) == [t EXCEPT !.cursor = Clamp(t.cursor + n, 0, Len(t.rows) - 1)]

\* The keys the model types.  "up" and "down" stand for the widget's
\* navigation; "d" is also the widget's half-page-down key.
NavKeys == {"up", "down"}

\* table.Update(msg): a blurred table ignores every message; a focused one
\* moves the cursor on its own key bindings and ignores the rest.
TableUpdate(t, key) ==
  IF ~t.focus THEN t
  ELSE CASE key = "up" -> MoveUp(t, 1)
         [] key = "down" -> MoveDown(t, 1)
         [] key = "d" -> MoveDown(t, HalfPage)
         [] OTHER -> t

(***************************************************************************)
(* View.                                                                   *)
(***************************************************************************)
GrayOn == "ESC[90m"
GrayOff == "ESC[0m"
\* grayStyle.Render(cell)
GrayRender(cell) == <<GrayOn>> \o cell \o <<GrayOff>>

IsTerminalStatus(status) == Contains(status, Exited) \/ Contains(status, Stopped)

\* the styled copy View builds from m.rows
StyledRows_ExactMatch(mrows) ==
  [i \in 1..Len(mrows) |->
     IF mrows[i][5] = Exited
     THEN [j \in 1..Len(mrows[i]) |-> GrayRender(mrows[i][j])]
     ELSE mrows[i]]

StyledRows(mrows) ==
  [i \in 1..Len(mrows) |->
     IF IsTerminalStatus(mrows[i][5])
     THEN [j \in 1..Len(mrows[i]) |-> GrayRender(mrows[i][j])]
     ELSE mrows[i]]

\* helpView: the keys the legend names
helpView == <<"up/down", "q", "s", "r", "d", "o">>

\* View has a value receiver: m.table.SetRows(styledRows) acts on View's own
\* copy of the model.  frame is what is drawn, m the model the program is
\* left with.
View(m, clamps) ==
  IF m.loading
  THEN [frame |-> [kind |-> "loading", rows |-> <<>>, help |-> <<>>], m |-> m]
  ELSE LET shown == SetRows(m.table, StyledRows(m.rows), clamps)
       IN [frame |-> [kind |-> "table", rows |-> shown.rows, help |-> helpView],
           m |-> m]

(***************************************************************************)
(* The docker daemon's answers.                                            *)
(***************************************************************************)
RECURSIVE Join(_, _)
Join(fields, sep) ==
  IF fields = <<>> THEN <<>>
  ELSE IF Len(fields) = 1 THEN Head(fields)
  ELSE Head(fields) \o <<sep>> \o Join(Tail(fields), sep)

Up == <<"U", "p">>
Img == <<"i">>
Cmd == <<"c">>
Cre == <<"t">>
Nam == <<"n">>
Port8080 == <<"8", "0", "8", "0", "-", ">", "8", "0", "/", "t", "c", "p">>
\* "1:53->53/udp, 1:90->90/tcp": an address before each host port, a udp
\* mapping before the tcp one
PortsUdpTcp ==
  <<"1", ":", "5", "3", "-", ">", "5", "3", "/", "u", "d", "p", ",", SP,
    "1", ":", "9", "0", "-", ">", "9", "0", "/", "t", "c", "p">>

\* one line of `docker ps --all --format "{{.ID}}\t...\t{{.Names}}"`
DockerLine(id, status, ports) ==
  Join(<<id, Img, Cmd, Cre, status, ports, Nam>>, TAB) \o <<NL>>

LineA == DockerLine(<<"a">>, Stopped, Port8080)
LineB == DockerLine(<<"b">>, Exited \o <<SP, "(", "0", ")">>, <<>>)
\* fields printed with blanks around them
LinePadded == DockerLine(<<SP, "a">>, Up \o <<SP>>, PortsUdpTcp)
\* a line of two fields
LineShort == <<"w", TAB, "x", NL>>

\* What one run of `docker ps` may print on its standard output: nothing,
\* one container, two containers, and a listing with a line that is not a
\* container's.
PSOutputs ==
  { <<>>,
    LineA,
    LineB \o LinePadded,
    LineA \o LineShort }

(***************************************************************************)
(* extractPort: the first match of the regular expression                  *)
(* (\d+)->\d+/tcp in the text, leftmost and greedy as Go's regexp matches. *)
(***************************************************************************)
IsDigit(c) == c \in {"0", "1", "2", "3", "4", "5", "6", "7", "8", "9"}

\* \d+ from position i: the number of digits s has from there on.  Greedy,
\* and giving digits back never helps, since what follows \d+ in the
\* expression ("-" and "/") is not a digit.
RECURSIVE DigitRun(_, _)
DigitRun(s, i) ==
  IF i >= 1 /\ i <= Len(s) /\ IsDigit(s[i]) THEN 1 + DigitRun(s, i + 1) ELSE 0

\* s has the literal text lit from position i
LiteralAt(s, i, lit) ==
  /\ i >= 1
  /\ i + Len(lit) - 1 <= Len(s)
  /\ SubSeq(s, i, i + Len(lit) - 1) = lit

Arrow == <<"-", ">">>
SlashTcp == <<"/", "t", "c", "p">>

\* the expression matches from position i
MatchAt_AnyProtocol(s, i) ==
  LET k == DigitRun(s, i)
      m == DigitRun(s, i + k + Len(Arrow))
  IN /\ k >= 1
     /\ LiteralAt(s, i + k, Arrow)
     /\ m >= 1
MatchAt(s, i) ==
  LET k == DigitRun(s, i)
      m == DigitRun(s, i + k + Len(Arrow))
  IN /\ k >= 1
     /\ LiteralAt(s, i + k, Arrow)
     /\ m >= 1
     /\ LiteralAt(s, i + k + Len(Arrow) + m, SlashTcp)

\* [err, port]: err when len(matches) < 2, else matches[1], the group of
\* the leftmost match
extractPort(portMapping) ==
  LET s == portMapping
      Starts == {i \in 1..Len(s) : MatchAt(s, i)}
  IN IF Starts = {}
     THEN [err |-> TRUE, port |-> <<>>]
     ELSE LET i == CHOOSE x \in Starts : \A y \in Starts : x <= y
          IN [err |-> FALSE, port |-> SubSeq(s, i, i + DigitRun(s, i) - 1)]

(***************************************************************************)
(* State.                                                                  *)
(***************************************************************************)
VARIABLES
  loading,    \* m.loading
  rows,       \* m.rows
  table,      \* m.table: [rows, cursor, focus]
  frame,      \* what the last call of View drew
  prog,       \* the dashboard process: "running", "quit" (tea.Quit),
              \* "panicked" (a panic in Update), "replaced" (syscall.Exec)
  loop,       \* the event loop: "idle" between two messages, "refreshing"
              \* while Update waits in getDockerPSOutput (line 221)
  cmds,       \* the commands Update returned that are not yet handled: a bag
  dispatched, \* the number of commands returned so far
  fetches,    \* runs of `docker ps` started so far
  clamps,     \* the build: whether the widget's SetRows clamps the cursor
  last,       \* what the event loop did last
  spawned,    \* the external process the last call of Update started itself
  loadFailed, \* whether loadDockerData answered errMsg
  rt          \* a run of the parser on its own: [records, done, result]

vars == <<loading, rows, table, frame, prog, loop, cmds, dispatched, fetches, clamps,
          last, spawned, loadFailed, rt>>

MutatingKinds == {"stop", "restart", "rm"}

\* A command's life: "queued" (returned by Update, its goroutine not yet at
\* the external call), "running" (the external process is in flight), "done"
\* (its message waits for the event loop); then Update takes the message
\* and the command is over.
NoMsg == [type |-> "nil", text |-> <<>>]
NewCmd(kind, id) ==
  [kind |-> kind, id |-> id, stage |-> "queued", ok |-> TRUE, msg |-> NoMsg]
Put(c) == cmds (+) SetToBag({c})
Drop(c) == cmds (-) SetToBag({c})
Become(c, d) == Drop(c) (+) SetToBag({d})

\* no process, `xdg-open http://localhost:<port>`, `docker ps`
NoProcess == [cmd |-> "none", arg |-> <<>>]
XdgOpen(port) == [cmd |-> "xdg-open", arg |-> port]
DockerPs == [cmd |-> "docker ps", arg |-> <<>>]

\* the parser is not being run on its own
RtIdle == [records |-> <<>>, done |-> FALSE, result |-> [panic |-> FALSE, list |-> <<>>]]

\* initialModel, main and Init: loading, no rows, a focused empty table, and
\* the batch of Init (loadDockerData) handed to the runtime.
InitDashboard ==
  /\ loading = TRUE
  /\ rows = <<>>
  /\ table = NewTable
  /\ frame = [kind |-> "loading", rows |-> <<>>, help |-> <<>>]
  /\ prog = "running"
  /\ loop = "idle"
  /\ cmds = SetToBag({NewCmd("load", <<>>)})
  /\ dispatched = 1
  /\ fetches = 0
  /\ clamps \in BOOLEAN
  /\ last = "init"
  /\ spawned = NoProcess
  /\ loadFailed = FALSE

Init == InitDashboard /\ rt = RtIdle

M == [table |-> table, rows |-> rows, loading |-> loading]

\* The event loop takes a message only between two calls of Update.
LoopReady == prog = "running" /\ loop = "idle"

\* Update returned m2: the runtime keeps it and draws it.
CommitSpawn(m2, ev, process) ==
  LET v == View(m2, clamps)
  IN /\ loading' = v.m.loading
     /\ rows' = v.m.rows
     /\ table' = v.m.table
     /\ frame' = v.frame
     /\ last' = ev
     /\ spawned' = process

Commit(m2, ev) == CommitSpawn(m2, ev, NoProcess)

\* the tail of Update all cases that do not return share:
\* m.table, cmd = m.table.Update(msg); m.spinner, cmd = m.spinner.Update(msg)
Fallthrough(m2, key) == [m2 EXCEPT !.table = TableUpdate(m2.table, key)]

Dispatch(kind, id) ==
  /\ dispatched < MaxCmds
  /\ dispatched' = dispatched + 1
  /\ cmds' = Put(NewCmd(kind, id))

(***************************************************************************)
(* Update, case tea.KeyMsg.                                                *)
(***************************************************************************)
\* if m.table.Focused() { m.table.Blur() } else { m.table.Focus() }
ToggleFocus_BlurOnly(m) == [m EXCEPT !.table.focus = FALSE]
ToggleFocus(m) == [m EXCEPT !.table.focus = ~m.table.focus]

\* "esc": blur a focused table, focus a blurred one.
KeyEsc ==
  /\ LoopReady
  /\ Commit(Fallthrough(ToggleFocus(M), "esc"), "esc")
  /\ UNCHANGED <<prog, loop, cmds, dispatched, fetches, clamps, loadFailed, rt>>

\* "q", "ctrl+c": return m, tea.Quit
KeyQuit ==
  /\ LoopReady
  /\ prog' = "quit"
  /\ Commit(M, "quit")
  /\ UNCHANGED <<loop, cmds, dispatched, fetches, clamps, loadFailed, rt>>

\* a navigation key of the table: nothing in the key switch, then table.Update
KeyNav(key) ==
  /\ LoopReady
  /\ Commit(Fallthrough(M, key), key)
  /\ UNCHANGED <<prog, loop, cmds, dispatched, fetches, clamps, loadFailed, rt>>

\* the test of line 143 on the selected row's status
AttachRefused_ExitedOnly(status) == Contains(status, Exited)
AttachRefused(status) == Contains(status, Exited) \/ Contains(status, Stopped)

\* "e": attach to the selected container unless its status says it stopped.
KeyE ==
  /\ LoopReady
  /\ IF Len(SelectedRow(table)) > 0
     THEN LET selectedID == TrimSpace(SelectedRow(table)[1])
              status == SelectedRow(table)[5]
          IN IF AttachRefused(status)
             THEN /\ Commit(M, "e:rejected")
                  /\ UNCHANGED <<cmds, dispatched>>
             ELSE /\ Dispatch("exec", selectedID)
                  /\ Commit(M, "e:dispatch")
     ELSE /\ Commit(Fallthrough(M, "e"), "e:norow")
          /\ UNCHANGED <<cmds, dispatched>>
  /\ UNCHANGED <<prog, loop, fetches, clamps, loadFailed, rt>>

\* "s", "r", "d": return the command that runs docker stop / restart / rm
\* on the selected container and then answers refreshMsg.
KindOfKey(key) ==
  CASE key = "s" -> "stop" [] key = "r" -> "restart" [] key = "d" -> "rm"

KeyMutate_NoRowCheck(key) ==
  /\ LoopReady
  /\ LET row == SelectedRow(table)
         selectedID == IF Len(row) > 0 THEN TrimSpace(row[1]) ELSE <<>>
     IN /\ Dispatch(KindOfKey(key), selectedID)
        /\ Commit(M, key \o ":dispatch")
  /\ UNCHANGED <<prog, loop, fetches, clamps, loadFailed, rt>>

KeyMutate(key) ==
  /\ LoopReady
  /\ IF Len(SelectedRow(table)) > 0
     THEN LET selectedID == TrimSpace(SelectedRow(table)[1])
          IN /\ Dispatch(KindOfKey(key), selectedID)
             /\ Commit(M, key \o ":dispatch")
     ELSE /\ Commit(Fallthrough(M, key), key \o ":norow")
          /\ UNCHANGED <<cmds, dispatched>>
  /\ UNCHANGED <<prog, loop, fetches, clamps, loadFailed, rt>>

\* "o": open the selected container's first tcp host port in the browser.
\* exec.Command("xdg-open", url).Start() is called inside Update and does
\* not wait for the browser; without a port the error is printed and no
\* process is started.  Both branches return m, nil.
KeyO ==
  /\ LoopReady
  /\ IF Len(SelectedRow(table)) > 0
     THEN LET portMapping == SelectedRow(table)[6]
              r == extractPort(portMapping)
          IN IF r.err
             THEN Commit(M, "o:noport")
             ELSE CommitSpawn(M, "o:open", XdgOpen(r.port))
     ELSE Commit(Fallthrough(M, "o"), "o:norow")
  /\ UNCHANGED <<prog, loop, cmds, dispatched, fetches, clamps, loadFailed, rt>>

(***************************************************************************)
(* The goroutines the runtime starts for the commands Update returns, and  *)
(* the external processes they run.                                        *)
(***************************************************************************)
SetStage(c, stage) == Become(c, [c EXCEPT !.stage = stage])

\* The goroutine of command i reaches its external call: cmd.Output() in
\* getDockerPSOutput, c.CombinedOutput() of docker stop / restart / rm.
CmdStart_ReadsSelection(c) ==
  /\ prog = "running"
  /\ c.stage = "queued"
  /\ c.kind /= "exec"
  /\ cmds' = Become(c, [c EXCEPT !.stage = "running",
                                  !.id = IF Len(SelectedRow(table)) > 0
                                         THEN TrimSpace(SelectedRow(table)[1])
                                         ELSE <<>>])
  /\ fetches' = IF c.kind = "load" THEN fetches + 1 ELSE fetches
  /\ UNCHANGED <<loading, rows, table, frame, prog, loop, dispatched, clamps, loadFailed, rt, last, spawned>>

CmdStart(c) ==
  /\ prog = "running"
  /\ c.stage = "queued"
  /\ c.kind /= "exec"
  /\ cmds' = SetStage(c, "running")
  /\ fetches' = IF c.kind = "load" THEN fetches + 1 ELSE fetches
  /\ UNCHANGED <<loading, rows, table, frame, prog, loop, dispatched, clamps, loadFailed, rt, last, spawned>>

\* syscall.Exec("/usr/bin/docker", docker exec -it id bash): on success the
\* dashboard's process image is replaced by docker and nothing of the
\* dashboard runs again; on failure the error is dropped and the command
\* answers nil, which the runtime discards.
CmdExec(c, success) ==
  /\ prog = "running"
  /\ c.stage = "queued"
  /\ c.kind = "exec"
  /\ IF success
     THEN /\ prog' = "replaced"
          /\ cmds' = SetStage(c, "running")
     ELSE /\ prog' = prog
          /\ cmds' = Drop(c)
  /\ UNCHANGED <<loading, rows, table, frame, loop, dispatched, fetches, clamps, loadFailed, rt, last, spawned>>

\* The docker process that replaced the dashboard ends: so does the process.
AttachExit(c) ==
  /\ prog = "replaced"
  /\ c.kind = "exec"
  /\ c.stage = "running"
  /\ cmds' = SetStage(c, "exited")
  /\ UNCHANGED <<loading, rows, table, frame, prog, loop, dispatched, fetches, clamps, loadFailed, rt, last, spawned>>

\* loadDockerData returns: errMsg{err} or dockerDataMsg(output).
LoadFinish(c, failed, output) ==
  /\ prog = "running"
  /\ c.stage = "running"
  /\ c.kind = "load"
  /\ cmds' = Become(c, [c EXCEPT !.stage = "done",
                                  !.ok = ~failed,
                                  !.msg = IF failed
                                          THEN [type |-> "errMsg", text |-> <<>>]
                                          ELSE [type |-> "dockerDataMsg", text |-> output]])
  /\ UNCHANGED <<loading, rows, table, frame, prog, loop, dispatched, fetches, clamps, loadFailed, rt, last, spawned>>

\* docker stop / restart / rm returns, with or without an error (a launch
\* failure or a non-zero exit; it is printed): the command answers refreshMsg{}.
ActionFinish_NoRefreshOnError(c, ok) ==
  /\ prog = "running"
  /\ c.stage = "running"
  /\ c.kind \in MutatingKinds
  /\ cmds' = IF ok
             THEN Become(c, [c EXCEPT !.stage = "done",
                                      !.msg = [type |-> "refreshMsg", text |-> <<>>]])
             ELSE Drop(c)
  /\ UNCHANGED <<loading, rows, table, frame, prog, loop, dispatched, fetches, clamps, loadFailed, rt, last, spawned>>

ActionFinish(c, ok) ==
  /\ prog = "running"
  /\ c.stage = "running"
  /\ c.kind \in MutatingKinds
  /\ cmds' = Become(c, [c EXCEPT !.stage = "done",
                                  !.ok = ok,
                                  !.msg = [type |-> "refreshMsg", text |-> <<>>]])
  /\ UNCHANGED <<loading, rows, table, frame, prog, loop, dispatched, fetches, clamps, loadFailed, rt, last, spawned>>

(***************************************************************************)
(* Update, the message cases.                                              *)
(***************************************************************************)
\* what Update does with the text of a listing: parse, project, SetRows
Loaded(m, output) ==
  LET r == dockerPSToTableRows(parseDockerPSOutput(output).list)
  IN [m EXCEPT !.rows = r, !.table = SetRows(m.table, r, clamps)]

\* case dockerDataMsg.  A panic in Update ends the program.
HandleData(c) ==
  /\ LoopReady
  /\ c.stage = "done"
  /\ c.msg.type = "dockerDataMsg"
  /\ cmds' = Drop(c)
  /\ IF parseDockerPSOutput(c.msg.text).panic
     THEN /\ prog' = "panicked"
          /\ last' = "data:panic"
          /\ spawned' = NoProcess
          /\ UNCHANGED <<loading, rows, table, frame>>
     ELSE /\ prog' = prog
          /\ Commit(Fallthrough([Loaded(M, c.msg.text) EXCEPT !.loading = FALSE],
                                "msg"), "data")
  /\ UNCHANGED <<loop, dispatched, fetches, clamps, loadFailed, rt>>

\* case errMsg
HandleErr_Retry(c) ==
  /\ LoopReady
  /\ c.stage = "done"
  /\ c.msg.type = "errMsg"
  /\ dispatched < MaxCmds
  /\ dispatched' = dispatched + 1
  /\ cmds' = Become(c, NewCmd("load", <<>>))
  /\ Commit(Fallthrough(M, "msg"), "err")
  /\ loadFailed' = TRUE
  /\ UNCHANGED <<prog, loop, fetches, clamps, rt>>

HandleErr(c) ==
  /\ LoopReady
  /\ c.stage = "done"
  /\ c.msg.type = "errMsg"
  /\ cmds' = Drop(c)
  /\ Commit(Fallthrough([M EXCEPT !.loading = FALSE], "msg"), "err")
  /\ loadFailed' = TRUE
  /\ UNCHANGED <<prog, loop, dispatched, fetches, clamps, rt>>

\* case refreshMsg, up to the call of getDockerPSOutput in refreshTableData:
\* Update starts `docker ps` itself and waits for it.
RefreshBegin(c) ==
  /\ LoopReady
  /\ c.stage = "done"
  /\ c.msg.type = "refreshMsg"
  /\ cmds' = Drop(c)
  /\ loop' = "refreshing"
  /\ fetches' = fetches + 1
  /\ last' = "refresh:begin"
  /\ spawned' = DockerPs
  /\ UNCHANGED <<loading, rows, table, frame, prog, dispatched, clamps, loadFailed, rt>>

\* case refreshMsg, from the return of getDockerPSOutput: on an error
\* refreshTableData prints it and returns; otherwise parse, project, SetRows.
RefreshEnd(failed, output) ==
  /\ prog = "running"
  /\ loop = "refreshing"
  /\ loop' = "idle"
  /\ IF failed
     THEN /\ prog' = prog
          /\ Commit(Fallthrough(M, "msg"), "refresh:err")
     ELSE IF parseDockerPSOutput(output).panic
     THEN /\ prog' = "panicked"
          /\ last' = "refresh:panic"
          /\ spawned' = NoProcess
          /\ UNCHANGED <<loading, rows, table, frame>>
     ELSE /\ prog' = prog
          /\ Commit(Fallthrough(Loaded(M, output), "msg"), "refresh:ok")
  /\ UNCHANGED <<cmds, dispatched, fetches, clamps, loadFailed, rt>>

\* the keys Update or the table it forwards to has a case for
HandledKeys == NavKeys \cup {"esc", "q", "ctrl+c", "e", "s", "r", "d", "o"}

Next ==
  \/ KeyEsc
  \/ KeyQuit
  \/ \E key \in NavKeys : KeyNav(key)
  \/ KeyE
  \/ \E key \in {"s", "r", "d"} : KeyMutate(key)
  \/ KeyO
  \/ \E c \in BagToSet(cmds) : CmdStart(c)
  \/ \E c \in BagToSet(cmds), success \in BOOLEAN : CmdExec(c, success)
  \/ \E c \in BagToSet(cmds) : AttachExit(c)
  \/ \E c \in BagToSet(cmds), output \in PSOutputs : LoadFinish(c, FALSE, output)
  \/ \E c \in BagToSet(cmds) : LoadFinish(c, TRUE, <<>>)
  \/ \E c \in BagToSet(cmds), ok \in BOOLEAN : ActionFinish(c, ok)
  \/ \E c \in BagToSet(cmds) : HandleData(c)
  \/ \E c \in BagToSet(cmds) : HandleErr(c)
  \/ \E c \in BagToSet(cmds) : RefreshBegin(c)
  \/ \E output \in PSOutputs : RefreshEnd(FALSE, output)
  \/ RefreshEnd(TRUE, <<>>)

Spec == Init /\ [][Next]_vars

\* The event loop receives from the runtime's message channel as long as the
\* program runs, so a waiting refreshMsg is taken; and a started `docker ps`
\* returns.
RefreshSteps ==
  \/ \E c \in BagToSet(cmds) : RefreshBegin(c)
  \/ \E output \in PSOutputs : RefreshEnd(FALSE, output)
  \/ RefreshEnd(TRUE, <<>>)

FairSpec == Spec /\ WF_vars(RefreshSteps)

(***************************************************************************)
(* The parser on its own: parseDockerPSOutput applied to what `docker ps`  *)
(* prints for a list of containers under the format of getDockerPSOutput.  *)
(***************************************************************************)
\* --format "{{.ID}}\t{{.Image}}\t{{.Command}}\t{{.CreatedAt}}\t{{.Status}}
\* \t{{.Ports}}\t{{.Names}}": one line per container, each ended by "\n"
FormatRecord(d) ==
  Join(<<d.ContainerID, d.Image, d.Command, d.Created, d.Status, d.Ports, d.Names>>,
       TAB) \o <<NL>>

RECURSIVE FormatRecords(_)
FormatRecords(list) ==
  IF list = <<>> THEN <<>>
  ELSE FormatRecord(Head(list)) \o FormatRecords(Tail(list))

\* containers: an id with or without a blank before it, with or without
\* published ports, with or without a name
SampleRecords ==
  {[ContainerID |-> id, Image |-> Img, Command |-> Cmd, Created |-> Cre,
    Status |-> Up, Ports |-> ports, Names |-> names] :
     id \in {<<"a">>, <<SP, "a">>}, ports \in {<<>>, Port8080}, names \in {Nam, <<>>}}

RecordLists == UNION {[1..n -> SampleRecords] : n \in 0..MaxRecs}

ParseInit ==
  /\ InitDashboard
  /\ rt \in {[records |-> l, done |-> FALSE, result |-> RtIdle.result] :
               l \in RecordLists}

ParseRun ==
  /\ ~rt.done
  /\ rt' = [rt EXCEPT !.done = TRUE,
                      !.result = parseDockerPSOutput(FormatRecords(rt.records))]
  /\ UNCHANGED <<loading, rows, table, frame, prog, loop, cmds, dispatched, fetches,
                 clamps, last, spawned, loadFailed>>

ParseNext == ParseRun

ParseSpec == ParseInit /\ [][ParseNext]_vars


(***************************************************************************)
(* Properties.                                                             *)
(***************************************************************************)
\* the commands of one kind on one container whose external command has not
\* yet returned
Outstanding(kind, id) ==
  {c \in BagToSet(cmds) : c.kind = kind /\ c.id = id /\ c.stage \in {"queued", "running"}}

NumOutstanding(kind, id) ==
  BagCardinality([c \in Outstanding(kind, id) |-> cmds[c]])

\* C1: duplicate suppression.  For each mutating kind and each container, a
\* second press of the same key while the first command has not completed is
\* dropped: at most one command of that kind on that container is outstanding.
C1_DuplicateSuppressed ==
  \A c \in BagToSet(cmds) :
    c.kind \in MutatingKinds => NumOutstanding(c.kind, c.id) <= 1

\* C2: the row parser never crashes.  A listing with a line that has not 7
\* fields leaves the dashboard running: no step ends the program in a panic.
C2_ParserNeverCrashes == prog /= "panicked"

\* an external process the dashboard started is in flight
ExternalInFlight ==
  \/ loop = "refreshing"
  \/ \E c \in BagToSet(cmds) : c.stage = "running"

\* C3: the event loop never blocks on an external process.  While the
\* dashboard runs and an external call is in flight, the event loop is free to
\* take the next keystroke.
C3_LoopNeverBlocks ==
  (prog = "running" /\ ExternalInFlight) => LoopReady

\* C4: attach validation.  The attach key on a row whose status contains
\* "Exited" or "Stopped" dispatches nothing and leaves rows, table (selection)
\* and loading flag as they were; the attach key dispatches a command only when
\* the status contains neither word, and then docker exec on the selected id.
C4_AttachValidation ==
  [][KeyE =>
       LET sel == SelectedRow(table)
           stopped == Len(sel) > 0 /\ (Contains(sel[5], Exited) \/ Contains(sel[5], Stopped))
       IN /\ stopped =>
               /\ cmds' = cmds
               /\ dispatched' = dispatched
               /\ <<rows, table, loading>>' = <<rows, table, loading>>
               /\ prog' = prog
          /\ cmds' /= cmds =>
               /\ Len(sel) > 0
               /\ ~Contains(sel[5], Exited)
               /\ ~Contains(sel[5], Stopped)
               /\ cmds' = cmds (+) SetToBag({NewCmd("exec", sel[1])})]_vars

\* C4's case: the attach key was just refused on a selected, stopped container.
C4_Witness ==
  /\ last = "e:rejected"
  /\ Len(SelectedRow(table)) > 0
  /\ Contains(SelectedRow(table)[5], Stopped)

\* C5: interactive handoff returns.  When the process attached by the attach
\* key has ended, the dashboard is alive again, in Ready.
C5_HandoffReturns ==
  \A c \in BagToSet(cmds) :
    (c.kind = "exec" /\ c.stage = "exited") => (prog = "running" /\ ~loading)


\* mutating commands whose external command is in flight, and refreshMsg
\* messages that wait for the event loop
NumRunning ==
  BagCardinality([c \in {d \in BagToSet(cmds) :
                           d.kind \in MutatingKinds /\ d.stage = "running"} |-> cmds[c]])
NumRefreshWaiting ==
  BagCardinality([c \in {d \in BagToSet(cmds) :
                           d.stage = "done" /\ d.msg.type = "refreshMsg"} |-> cmds[c]])

C7_FailedRefreshEmpties ==
  last \in {"err", "refresh:err"} =>
    (~loading /\ rows = <<>> /\ table.rows = <<>> /\ frame.rows = <<>>)

InRange == table.cursor \in 0..Max(0, Len(table.rows) - 1)

\* a refresh completes: Update handles dockerDataMsg or errMsg, or returns
\* from refreshTableData
RefreshCompletes ==
  \/ \E c \in BagToSet(cmds) : HandleData(c) \/ HandleErr(c)
  \/ \E output \in PSOutputs : RefreshEnd(FALSE, output)
  \/ RefreshEnd(TRUE, <<>>)

\* C8: the selected row index lies in [0, max(0, len(records)-1)] after any
\* refresh.  Stated of the refresh alone, which the claim implies: a refresh
\* that starts with the index in that range ends with it in that range,
\* whether the record set grows, shrinks or becomes empty.
C8_SelectionClampedByRefresh ==
  [][(RefreshCompletes /\ InRange /\ prog' = "running") => InRange']_vars

\* C9: the quit key ends the event loop from every reachable state, without
\* waiting for an external call, and nothing but the quit key ends the
\* program: a running program can take the quit key now, and a program that
\* does not run was quit.
C9_QuitAlwaysAndOnly ==
  /\ prog = "running" => LoopReady
  /\ prog \in {"running", "quit"}

\* a display row in the muted style: every cell wrapped by the gray style
IsMutedRow(cells) ==
  \A j \in 1..Len(cells) :
    Len(cells[j]) >= 2 /\ cells[j][1] = GrayOn /\ cells[j][Len(cells[j])] = GrayOff
\* the text of a display row, its styling taken off
PlainRow(cells) ==
  [j \in 1..Len(cells) |->
     IF Len(cells[j]) >= 2 /\ cells[j][1] = GrayOn
     THEN SubSeq(cells[j], 2, Len(cells[j]) - 1) ELSE cells[j]]

\* C10: the projection gives one table row per record, in order; the frame
\* drawn in Ready shows one display row per row of the record set, in order,
\* muted exactly when the status cell contains "Exited" or "Stopped"; drawing
\* leaves the record set and the table's rows unstyled, and drawing again gives
\* the same frame.
C10_Projection ==
  /\ \A output \in PSOutputs :
       LET p == parseDockerPSOutput(output)
           r == dockerPSToTableRows(p.list)
       IN /\ Len(r) = Len(p.list)
          /\ \A i \in 1..Len(r) :
               r[i] = <<p.list[i].ContainerID, p.list[i].Image, p.list[i].Command,
                        p.list[i].Created, p.list[i].Status, p.list[i].Ports,
                        p.list[i].Names>>
  /\ ~loading =>
       /\ frame.kind = "table"
       /\ Len(frame.rows) = Len(rows)
       /\ \A i \in 1..Len(rows) :
            /\ PlainRow(frame.rows[i]) = rows[i]
            /\ IsMutedRow(frame.rows[i]) <=>
                 (Contains(rows[i][5], Exited) \/ Contains(rows[i][5], Stopped))
            /\ ~IsMutedRow(frame.rows[i]) => frame.rows[i] = rows[i]
       /\ table.rows = rows
       /\ \A i \in 1..Len(rows) : \A j \in 1..Len(rows[i]) :
            GrayOn \notin {rows[i][j][k] : k \in 1..Len(rows[i][j])}
       /\ View(M, clamps).frame = frame

\* C10's case: a frame was drawn with a muted and a plain row.
C10_Witness ==
  /\ ~loading
  /\ frame.kind = "table"
  /\ \E i, j \in 1..Len(frame.rows) :
       IsMutedRow(frame.rows[i]) /\ ~IsMutedRow(frame.rows[j])

(***************************************************************************)
(* C11.  Parse round trip.                                                 *)
(***************************************************************************)
FieldsOf(d) ==
  <<d.ContainerID, d.Image, d.Command, d.Created, d.Status, d.Ports, d.Names>>

\* a field without a tab or a newline in it and without white space at
\* either end
IsPlainField(f) ==
  /\ TrimSpace(f) = f
  /\ \A k \in 1..Len(f) : f[k] \notin {TAB, NL}

AllPlain(list) ==
  \A i \in 1..Len(list) : \A j \in 1..NumFields : IsPlainField(FieldsOf(list[i])[j])

\* C11 as stated: for any list of records, parsing the text of one
\* tab-joined, newline-ended line per record gives the list back.
C11_RoundTripAny ==
  rt.done => (~rt.result.panic /\ rt.result.list = rt.records)

\* C11 amended: for any list of records whose fields have no white space at
\* either end (and no tab or newline inside), the empty list and records
\* with empty ports included, parsing the text of one tab-joined,
\* newline-ended line per record gives the list back.
C11_RoundTripTrimmed ==
  (rt.done /\ AllPlain(rt.records)) =>
    (~rt.result.panic /\ rt.result.list = rt.records)

\* C11's case: a list of two records, one of them without ports, came back
\* from the parser as it went in.
C11_Witness ==
  /\ rt.done
  /\ Len(rt.records) >= 2
  /\ AllPlain(rt.records)
  /\ \E i \in 1..Len(rt.records) : rt.records[i].Ports = <<>>
  /\ rt.result.list = rt.records

(***************************************************************************)
(* C12.  Opening the selected container's endpoint.                        *)
(***************************************************************************)
\* the mappings of a Ports cell, in the order docker lists them
PortMappings(ports) ==
  LET pieces == Split(ports, ",")
  IN [i \in 1..Len(pieces) |-> TrimSpace(pieces[i])]

\* mp reads [address:]<h digits> "->" <c digits> "/tcp", the address, if
\* any, being the first a characters and ending in ":"
IsTcpMapping(mp, a, h) ==
  LET c == Len(mp) - a - h - 2 - 4
  IN /\ c >= 1
     /\ mp[a + h + 1] = "-" /\ mp[a + h + 2] = ">"
     /\ a = 0 \/ mp[a] = ":"
     /\ SubSeq(mp, Len(mp) - 3, Len(mp)) = <<"/", "t", "c", "p">>
     /\ \A j \in (a + 1)..(a + h) : IsDigit(mp[j])
     /\ \A j \in (a + h + 3)..(a + h + 2 + c) : IsDigit(mp[j])

TcpShapes(mp) ==
  {x \in (0..Len(mp)) \X (1..Len(mp)) : IsTcpMapping(mp, x[1], x[2])}

\* the process the open key has to start for a Ports cell: xdg-open on the
\* host port of the first <hostPort>-><containerPort>/tcp mapping, none
\* when no mapping has that form
ExpectedOpen(ports) ==
  LET mps == PortMappings(ports)
      tcp == {i \in 1..Len(mps) : TcpShapes(mps[i]) /= {}}
  IN IF tcp = {} THEN NoProcess
     ELSE LET i == CHOOSE x \in tcp : \A y \in tcp : x <= y
              x == CHOOSE y \in TcpShapes(mps[i]) : TRUE
          IN XdgOpen(SubSeq(mps[i], x[1] + 1, x[1] + x[2]))

\* C12: the open key on a selected row starts xdg-open on the host port of
\* the row's first <hostPort>-><containerPort>/tcp mapping, and starts no
\* process at all when the row has no such mapping; in both cases the
\* dashboard stays Ready, rows, table and selection are unchanged, and no
\* command or fetch is dispatched.
C12_OpenEndpoint ==
  [][(KeyO /\ Len(SelectedRow(table)) > 0) =>
       /\ spawned' = ExpectedOpen(SelectedRow(table)[6])
       /\ (spawned' = NoProcess) <=> (last' = "o:noport")
       /\ ~loading /\ ~loading'
       /\ UNCHANGED <<rows, table, prog, loop, cmds, dispatched, fetches>>]_vars

\* C12's case: the open key was pressed on the row whose ports list a udp
\* mapping before the tcp one, and xdg-open was started on port 90.
C12_Witness ==
  /\ last = "o:open"
  /\ spawned = XdgOpen(<<"9", "0">>)
  /\ Len(SelectedRow(table)) > 0
  /\ SelectedRow(table)[6] = PortsUdpTcp

(***************************************************************************)
(* C13.  The help legend and the handled keys.                             *)
(***************************************************************************)
\* the legend entry a handled key falls under ("ctrl+c" is quit's second
\* binding, "up" and "down" share the navigation entry)
LegendEntryOf(key) ==
  CASE key \in NavKeys -> "up/down"
    [] key = "ctrl+c" -> "q"
    [] OTHER -> key

\* C13: whenever the table is drawn, the keys its legend lists are exactly
\* the keys Update handles: navigation, focus toggle (esc), quit, attach (e),
\* stop, restart, delete and open.
C13_LegendMatchesKeys ==
  frame.kind = "table" =>
    {frame.help[i] : i \in 1..Len(frame.help)} = {LegendEntryOf(k) : k \in HandledKeys}

(***************************************************************************)
(* C14.  Action keys without a selected row.                               *)
(***************************************************************************)
ActionKeyStep == KeyE \/ KeyO \/ \E key \in {"s", "r", "d"} : KeyMutate(key)

\* C14: when no row is selected, an action key (e, s, r, d, o) is a no-op:
\* it starts no process, dispatches no command and no refresh, and leaves
\* rows, the table with its selection, and loading unchanged.
C14_NoRowNoOp ==
  [][(ActionKeyStep /\ Len(SelectedRow(table)) = 0) =>
       /\ spawned' = NoProcess
       /\ UNCHANGED <<rows, table, loading, cmds, dispatched, fetches, prog, loop>>]_vars

(***************************************************************************)
(* C15.  The focus toggle.                                                 *)
(***************************************************************************)
\* what Update makes of model m on "esc"
AfterEsc(m) == Fallthrough(ToggleFocus(m), "esc")

\* C15: the focus toggle flips the table's focus and leaves the records,
\* the selected index and the loading flag unchanged; it dispatches no
\* command, starts no process and no fetch; toggling twice gives the
\* model back, focus included.
C15_FocusToggle ==
  /\ [](AfterEsc(AfterEsc(M)) = M)
  /\ [][KeyEsc =>
         /\ table'.focus = ~table.focus
         /\ table'.cursor = table.cursor
         /\ table'.rows = table.rows
         /\ spawned' = NoProcess
         /\ UNCHANGED <<rows, loading, cmds, dispatched, fetches, prog, loop>>]_vars

\* C15's case: esc was just handled and the table, focused at the start,
\* is focused: the toggle has acted at least twice.
C15_Witness ==
  /\ last = "esc"
  /\ table.focus
  /\ rows /= <<>>

(***************************************************************************)
(* C16.  Loading, then Ready for good.                                     *)
(***************************************************************************)
\* the initial fetch has not been handled by Update yet
LoadOutstanding == \E c \in BagToSet(cmds) : c.kind = "load"

\* C16: the dashboard is Loading with an empty record set exactly until
\* the result of the initial fetch has been handled (a listing of any
\* number of records, zero included, or an error), Ready from then on,
\* and once it is Ready loading never becomes true again.
C16_LoadingThenReady ==
  /\ [](loading <=> LoadOutstanding)
  /\ [](loading => rows = <<>>)
  /\ [][~loading => ~loading']_vars

(***************************************************************************)
(* C17.  No cancellation of dispatched actions.                            *)
(***************************************************************************)
\* the dispatched stop / restart / rm commands whose completion event
\* Update has not taken yet
MutatingOutstanding ==
  {c \in BagToSet(cmds) : c.kind \in MutatingKinds}

NumMutating(b) ==
  LET S == {c \in BagToSet(b) : c.kind \in MutatingKinds}
      RECURSIVE Sum(_)
      Sum(T) == IF T = {} THEN 0
                ELSE LET c == CHOOSE x \in T : TRUE
                     IN CopiesIn(c, b) + Sum(T \ {c})
  IN Sum(S)

\* C17: a dispatched mutating action is never cancelled or dropped by a
\* later event other than quit: the program does not end, except by quit,
\* while an action's completion event is undelivered; an action leaves
\* the set of outstanding ones only when Update takes its own refreshMsg;
\* and an action key pressed on a selected row while others are
\* outstanding dispatches one more command next to them.
C17_NoCancellation ==
  /\ [](prog \in {"panicked", "replaced"} => MutatingOutstanding = {})
  /\ [][NumMutating(cmds') < NumMutating(cmds) =>
          /\ NumMutating(cmds') = NumMutating(cmds) - 1
          /\ \E c \in BagToSet(cmds) : RefreshBegin(c)]_vars
  /\ [][\A key \in {"s", "r", "d"} :
          (KeyMutate(key) /\ Len(SelectedRow(table)) > 0) =>
            cmds' = cmds (+) SetToBag({NewCmd(KindOfKey(key),
                                              TrimSpace(SelectedRow(table)[1]))})]_vars

(***************************************************************************)
(* C18.  The initial fetch and the implicit refreshes.                     *)
(***************************************************************************)
\* C18: the initial fetch delivers at most one result message in a run;
\* until Update has handled it there are no rows, so no action has been
\* dispatched and no refresh has run; hence the result of the initial
\* fetch is always handled before any implicit refresh and cannot
\* overwrite the rows of one.
C18_InitialFetchOnce ==
  /\ [](\A c \in BagToSet(cmds) : c.kind = "load" => CopiesIn(c, cmds) = 1)
  /\ [](Cardinality({c \in BagToSet(cmds) : c.kind = "load"}) <= 1)
  /\ [](LoadOutstanding =>
          /\ rows = <<>>
          /\ dispatched = 1
          /\ fetches <= 1
          /\ \A c \in BagToSet(cmds) : c.kind = "load")
  /\ [][~LoadOutstanding => ~LoadOutstanding']_vars
  /\ [][(\E c \in BagToSet(cmds) : HandleData(c) \/ HandleErr(c)) =>
          (fetches = 1 /\ dispatched = 1 /\ rows = <<>>)]_vars

\* C18's case: the result of the initial fetch was handled, an action was
\* dispatched after it, and its implicit refresh has set the rows.
C18_Witness ==
  /\ ~LoadOutstanding
  /\ last = "refresh:ok"
  /\ rows /= <<>>
  /\ fetches >= 2

(***************************************************************************)
(* C19.  After a failed initial fetch.                                     *)
(***************************************************************************)
\* C19 as stated: once the initial fetch has failed, only quit is
\* effective: every other step leaves the dashboard as it is.
C19_OnlyQuitEffective ==
  [][loadFailed =>
       \/ KeyQuit
       \/ UNCHANGED <<rows, table, loading, prog, loop, cmds, dispatched, fetches>>]_vars

\* C19 amended: once the initial fetch has failed, the record set stays
\* empty for the rest of the run and no sequence of keys starts a further
\* fetch, a command or an external process; besides quit, keys still act
\* on the empty table's focus flag and cursor only.
C19_NothingAfterFailedLoad ==
  /\ [](loadFailed =>
          /\ rows = <<>> /\ table.rows = <<>>
          /\ ~loading
          /\ cmds = EmptyBag
          /\ dispatched = 1 /\ fetches = 1
          /\ spawned = NoProcess
          /\ loop = "idle"
          /\ prog \in {"running", "quit"})
  /\ [][loadFailed =>
          \/ KeyQuit
          \/ UNCHANGED <<rows, loading, prog, loop, cmds, dispatched, fetches>>]_vars

\* C19's case: the initial fetch failed and an action key was pressed
\* afterwards.
C19_Witness ==
  /\ loadFailed
  /\ last = "s:norow"
  /\ prog = "running"

(***************************************************************************)
(* C20.  The target of a dispatched command.                               *)
(***************************************************************************)
\* how many outstanding commands of bag b are of this kind on this id
CountOf(b, kind, id) ==
  LET S == {c \in BagToSet(b) : c.kind = kind /\ c.id = id}
      RECURSIVE Sum(_)
      Sum(T) == IF T = {} THEN 0
                ELSE LET c == CHOOSE x \in T : TRUE
                     IN CopiesIn(c, b) + Sum(T \ {c})
  IN Sum(S)

TargetsOf(b) == {<<c.kind, c.id>> : c \in BagToSet(b)}

DispatchKeyStep == KeyE \/ \E key \in {"s", "r", "d"} : KeyMutate(key)

\* C20: a stop, restart, delete or attach command is dispatched on the id
\* of the row selected when its key is handled, and from then on its kind
\* and id stay what they were: no step other than that key step brings
\* about a command on an id, whatever the selection and the rows become
\* before the command runs.
C20_TargetFixedAtKeyTime ==
  /\ [][(DispatchKeyStep /\ cmds' /= cmds) =>
          /\ Len(SelectedRow(table)) > 0
          /\ \E kind \in MutatingKinds \cup {"exec"} :
               cmds' = cmds (+) SetToBag({NewCmd(kind, TrimSpace(SelectedRow(table)[1]))})]_vars
  /\ [][~DispatchKeyStep =>
          \A t \in TargetsOf(cmds) \cup TargetsOf(cmds') :
            CountOf(cmds', t[1], t[2]) <= CountOf(cmds, t[1], t[2])]_vars

\* C20's case: docker stop / restart / rm is running on an id that is not
\* the id of the row selected now.
C20_Witness ==
  /\ Len(SelectedRow(table)) > 0
  /\ \E c \in BagToSet(cmds) :
       /\ c.kind \in MutatingKinds
       /\ c.stage = "running"
       /\ c.id /= TrimSpace(SelectedRow(table)[1])

=============================================================================
